---- MODULE Spec2Model ----
(***************************************************************************)
(* A model of controller/controller.py: a controller that keeps PowerDNS   *)
(* A-records and a ConfigMap ("the sink") in step with the pods matching a *)
(* label selector.  The tasks are the main thread, the periodic reconciler *)
(* thread and the _watch_ns threads; a step of a task is one call to an    *)
(* external system (cluster API, PowerDNS API, thread start) together with *)
(* the local computation around it.  Threads carry no identity in the      *)
(* code, so the tasks form a bag of their local states.                    *)
(*                                                                         *)
(* Spec is the process with its default configuration (all namespaces),    *)
(* SpecNs the process with WATCH_NAMESPACES set; SpecRetry, SpecDelete and *)
(* SpecSel apply one pure function to arguments drawn from bounded sets.   *)
(***************************************************************************)
EXTENDS Integers, Sequences, FiniteSets, Bags, TLC

VARIABLES
    cfg,        \* WATCH_NAMESPACES, fixed at process start
    cluster,    \* the cluster API's pods: id -> [present, uid, labels, ip]
    rv,         \* number of changes the cluster has seen (resource version)
    zone,       \* the PowerDNS zone: fqdn -> IP of its A rrset, "" when none
    sink,       \* the ConfigMap, NoDoc while it does not exist
    passes,     \* number of reconcile_all calls made so far (negative: not counted)
    tasks,      \* the bag of the threads' local states, see NewTask
    call        \* the function application under test (pure-function specs)

vars == <<cfg, cluster, rv, zone, sink, passes, tasks, call>>

----------------------------------------------------------------------------
(* Bounds of the model *)

\* _watch_ns threads the process can start before Thread.start() raises
MaxThreads == 2
\* pod changes the cluster goes through
MaxChanges == 1
\* reconcile_all calls the process makes
MaxPasses == 3
\* requests in a row the DNS API fails, and the attempts a retry is given
MaxFails == 7
MaxAttempts == 7
\* characters around the message in a response body
MaxPad == 1
\* length of a selector string
MaxSelLen == 4

----------------------------------------------------------------------------
(* Strings are sequences of one-character strings where the code looks      *)
(* inside them.                                                             *)

Min(a, b) == IF a <= b THEN a ELSE b

\* SOURCE_LABEL_SELECTOR, default "dns=true"
SOURCE_LABEL_SELECTOR == <<"d", "n", "s", "=", "t", "r", "u", "e">>

DNS_ZONE == "example.com."

DNS_RECORD_PREFIX == ""

\* the default of pdns_upsert_with_retry's attempts parameter
attempts == 6

Namespaces == {"a", "b"}
\* a pod is known by (namespace, name)
PodIds == {<<"a", "p1">>, <<"b", "p1">>}
NoIP == ""

\* the IP the cluster gives the pod it creates as its change number uid
IpOfUid(uid) ==
    CASE uid = 1 -> "10.0.1.1"
      [] uid = 2 -> "10.0.1.2"
      [] uid = 3 -> "10.0.1.3"
      [] OTHER   -> "10.0.1.4"

LblMatch == [k \in {<<"d", "n", "s">>} |-> <<"t", "r", "u", "e">>]
LblOther == [k \in {<<"a", "p", "p">>} |-> <<"x">>]
LabelSets == {LblMatch, LblOther}

\* WATCH_NAMESPACES: empty by default (all namespaces), or a list of namespaces
WATCH_NAMESPACES == << >>
WatchOnlyA == <<"a">>

NoDoc == [exists |-> FALSE]
NoEvent == [type |-> "NONE"]
NoCall == [fn |-> "none"]

\* the places of a task inside reconcile_all
PassPcs == {"list", "dns", "sink"}

----------------------------------------------------------------------------
(* String helpers: what str.strip, str.split, str.lower and `in` do *)

IsSpace(c) == c = " "

RECURSIVE LStrip(_)
LStrip(s) ==
    IF s # << >> /\ IsSpace(Head(s)) THEN LStrip(Tail(s)) ELSE s

RECURSIVE RStrip(_)
RStrip(s) ==
    IF s # << >> /\ IsSpace(s[Len(s)]) THEN RStrip(SubSeq(s, 1, Len(s) - 1)) ELSE s

\* str.strip()
Strip(s) == RStrip(LStrip(s))

\* index of the first sep in s at or after position i, 0 when there is none
RECURSIVE Find(_, _, _)
Find(s, sep, i) ==
    IF i > Len(s) THEN 0
    ELSE IF s[i] = sep THEN i
    ELSE Find(s, sep, i + 1)

\* str.split(sep): always at least one piece, empty pieces kept
RECURSIVE Split(_, _)
Split(s, sep) ==
    LET i == Find(s, sep, 1) IN
    IF i = 0 THEN << s >>
    ELSE << SubSeq(s, 1, i - 1) >> \o Split(SubSeq(s, i + 1, Len(s)), sep)

LowerChar(c) ==
    CASE c = "N" -> "n"
      [] c = "O" -> "o"
      [] c = "T" -> "t"
      [] c = "F" -> "f"
      [] c = "U" -> "u"
      [] c = "D" -> "d"
      [] c = "E" -> "e"
      [] c = "R" -> "r"
      [] OTHER   -> c

\* str.lower()
Lower(s) == [i \in 1 .. Len(s) |-> LowerChar(s[i])]

\* needle in hay
Contains(hay, needle) ==
    \E i \in 1 .. (Len(hay) - Len(needle) + 1) :
        SubSeq(hay, i, i + Len(needle) - 1) = needle

\* sep.join(parts)
RECURSIVE Join(_, _)
Join(parts, sep) ==
    IF parts = << >> THEN << >>
    ELSE IF Len(parts) = 1 THEN parts[1]
    ELSE parts[1] \o sep \o Join(Tail(parts), sep)

----------------------------------------------------------------------------
(* The pure functions of the controller *)

\* fqdn_for_pod: pod names carry no leading or trailing dot, so strip(".")
\* leaves prefix + name as it is; the namespace is not part of the name
fqdn_for_pod(pod_name) == DNS_RECORD_PREFIX \o pod_name \o "." \o DNS_ZONE

\* the body of the for-loop of _match_selector over the clauses still to do
RECURSIVE match_clauses(_, _)
match_clauses(labels, clauses) ==
    IF clauses = << >> THEN TRUE
    ELSE
        LET clause == Strip(Head(clauses))
            eq     == Find(clause, "=", 1)
            k      == Strip(SubSeq(clause, 1, eq - 1))
            v      == Strip(SubSeq(clause, eq + 1, Len(clause)))
        IN  IF clause = << >> THEN match_clauses(labels, Tail(clauses))
            ELSE IF eq # 0
                 THEN IF k \in DOMAIN labels /\ labels[k] = v
                      THEN match_clauses(labels, Tail(clauses))
                      ELSE FALSE
                 ELSE IF clause \in DOMAIN labels
                      THEN match_clauses(labels, Tail(clauses))
                      ELSE FALSE

\* a matcher whose loop returns after its first clause
match_first_clause_only(labels, selector) ==
    IF selector = << >> THEN TRUE
    ELSE match_clauses(labels, << Head(Split(selector, ",")) >>)

_match_selector(labels, selector) ==
    IF selector = << >> THEN TRUE
    ELSE match_clauses(labels, Split(selector, ","))

\* pdns_ready: a response is [kind, status, text]; kind "neterr" is requests raising
pdns_ready(resp) ==
    IF resp.kind = "neterr" THEN FALSE ELSE resp.status = 200

NotFound == <<"n", "o", "t", " ", "f", "o", "u", "n", "d">>

\* a delete that looks for "not found" in the body as it came
pdns_delete_case_sensitive(resp) ==
    IF resp.kind = "neterr" THEN "raise"
    ELSE IF resp.status >= 400 /\ ~Contains(resp.text, NotFound) THEN "raise"
    ELSE "ok"

\* pdns_delete_a_record: "ok" when it returns, "raise" when it raises
pdns_delete_a_record(resp) ==
    IF resp.kind = "neterr" THEN "raise"
    ELSE IF resp.status >= 400 /\ ~Contains(Lower(resp.text), NotFound) THEN "raise"
    ELSE "ok"

\* pdns_upsert_a_record
pdns_upsert_a_record(resp) ==
    IF resp.kind = "neterr" THEN "raise"
    ELSE IF resp.status >= 400 THEN "raise"
    ELSE "ok"

\* the answer to the c-th PATCH of an API that fails its first `fails` requests
UpsertAnswer(c, fails) ==
    IF c <= fails
    THEN [kind |-> "http", status |-> 500, text |-> << >>]
    ELSE [kind |-> "http", status |-> 204, text |-> << >>]

\* the loop of a retry that tries once more than it was asked to
RECURSIVE retry_loop_once_more(_, _, _, _)
retry_loop_once_more(i, calls, fails, n) ==
    IF i > n THEN [ok |-> FALSE, calls |-> calls, raised |-> FALSE]
    ELSE IF pdns_upsert_a_record(UpsertAnswer(calls + 1, fails)) = "ok"
         THEN [ok |-> TRUE, calls |-> calls + 1, raised |-> FALSE]
         ELSE retry_loop_once_more(i + 1, calls + 1, fails, n)

\* `for i in range(attempts):` of pdns_upsert_with_retry at iteration i, after
\* `calls` calls of pdns_upsert_a_record: return True when the call returns;
\* `except Exception` takes what it raises, sleeps, and the loop goes on; after
\* the loop, return False.  Nothing in the function raises outside the try.
RECURSIVE retry_loop(_, _, _, _)
retry_loop(i, calls, fails, n) ==
    IF i >= n THEN [ok |-> FALSE, calls |-> calls, raised |-> FALSE]
    ELSE IF pdns_upsert_a_record(UpsertAnswer(calls + 1, fails)) = "ok"
         THEN [ok |-> TRUE, calls |-> calls + 1, raised |-> FALSE]
         ELSE retry_loop(i + 1, calls + 1, fails, n)

\* pdns_upsert_with_retry(fqdn, ip, attempts=n) against an API that fails its
\* first `fails` requests
pdns_upsert_with_retry(fails, n) == retry_loop(0, 0, fails, n)

\* Python compares the sort keys as strings; the order of the names in use
StrOrd(s) ==
    CASE s = "a"  -> 1
      [] s = "b"  -> 2
      [] s = "p1" -> 3
      [] s = "p2" -> 4
      [] OTHER    -> 5

KeyLeq(x, y) ==
    \/ StrOrd(x.namespace) < StrOrd(y.namespace)
    \/ x.namespace = y.namespace /\ StrOrd(x.name) <= StrOrd(y.name)

\* list.sort is stable: x goes behind every element that is not greater
RECURSIVE InsertSorted(_, _)
InsertSorted(sorted, x) ==
    IF sorted = << >> THEN << x >>
    ELSE IF KeyLeq(Head(sorted), x)
         THEN << Head(sorted) >> \o InsertSorted(Tail(sorted), x)
         ELSE << x >> \o sorted

RECURSIVE SortPeers(_)
SortPeers(ps) ==
    IF ps = << >> THEN << >>
    ELSE InsertSorted(SortPeers(SubSeq(ps, 1, Len(ps) - 1)), ps[Len(ps)])

RECURSIVE PeersOf(_)
PeersOf(podList) ==
    IF podList = << >> THEN << >>
    ELSE LET p == Head(podList) IN
         IF p.ip = NoIP THEN PeersOf(Tail(podList))
         ELSE << [name |-> p.name, namespace |-> p.ns, ip |-> p.ip] >>
              \o PeersOf(Tail(podList))

\* build_peers without its peers.sort
build_peers_in_list_order(podList) == PeersOf(podList)

build_peers(podList) == SortPeers(PeersOf(podList))

\* json.dumps(peers, indent=2), as its tokens
JsonObject(peer) ==
    <<"{", "name", peer.name, "namespace", peer.namespace, "ip", peer.ip, "}">>

json_dumps(peers) ==
    <<"[">> \o Join([i \in 1 .. Len(peers) |-> JsonObject(peers[i])], <<",">>) \o <<"]">>

\* "\n".join(ips) alone
flat_list_joined(peers) ==
    Join([i \in 1 .. Len(peers) |-> << peers[i].ip >>], <<"\n">>)

\* "\n".join(ips) + ("\n" if peers else ""), as its tokens
flat_list(peers) ==
    Join([i \in 1 .. Len(peers) |-> << peers[i].ip >>], <<"\n">>)
    \o (IF peers # << >> THEN <<"\n">> ELSE << >>)

\* the data upsert_configmap writes
ConfigMapData(peers) ==
    [exists |-> TRUE, json |-> json_dumps(peers), list |-> flat_list(peers)]


----------------------------------------------------------------------------
(* The cluster API and the PowerDNS API, as the controller sees them *)

\* the order in which the API server returns pods
PodOrder == << <<"a", "p1">>, <<"b", "p1">> >>

Absent == [present |-> FALSE, uid |-> 0, labels |-> LblOther, ip |-> NoIP]

\* a V1Pod as list and watch return it
PodObject(id, c) ==
    [ns |-> id[1], name |-> id[2], uid |-> c.uid, labels |-> c.labels, ip |-> c.ip]

\* the API server's own answer to label_selector=SOURCE_LABEL_SELECTOR
ApiSelects(labels) ==
    <<"d", "n", "s">> \in DOMAIN labels /\ labels[<<"d", "n", "s">>] = <<"t", "r", "u", "e">>

RECURSIVE ListFrom(_, _, _)
ListFrom(order, cl, nss) ==
    IF order = << >> THEN << >>
    ELSE LET id == Head(order) IN
         IF cl[id].present /\ id[1] \in nss
         THEN << PodObject(id, cl[id]) >> \o ListFrom(Tail(order), cl, nss)
         ELSE ListFrom(Tail(order), cl, nss)

RECURSIVE Selected(_)
Selected(podList) ==
    IF podList = << >> THEN << >>
    ELSE IF ApiSelects(Head(podList).labels)
         THEN << Head(podList) >> \o Selected(Tail(podList))
         ELSE Selected(Tail(podList))

\* core.list_namespaced_pod(ns, label_selector=...).items
list_namespaced_pod(ns) == Selected(ListFrom(PodOrder, cluster, {ns}))

\* core.list_pod_for_all_namespaces(label_selector=...).items
list_pod_for_all_namespaces == Selected(ListFrom(PodOrder, cluster, Namespaces))

Http(status, text) == [kind |-> "http", status |-> status, text |-> text]
NetErr == [kind |-> "neterr", status |-> 0, text |-> << >>]

\* answers of GET /servers/{id}
ProbeResponses == {NetErr, Http(200, << >>), Http(503, << >>)}

\* answers of a PATCH with a DELETE change
DeleteResponses ==
    { NetErr,
      Http(204, << >>),
      Http(404, <<"N", "o", "t", " ", "F", "o", "u", "n", "d">>),
      Http(500, <<"e", "r", "r", "o", "r">>) }

\* how many of its first calls the API fails when an upsert is retried
FailChoices == {0, 2, attempts}

\* the zone after a PATCH answered resp: a change is applied when the API accepts it
ZoneAfterDelete(z, fqdn, resp) ==
    IF resp.kind = "http" /\ resp.status < 400 THEN [z EXCEPT ![fqdn] = NoIP] ELSE z

ZoneAfterUpsert(z, fqdn, ip, ok) ==
    IF ok THEN [z EXCEPT ![fqdn] = ip] ELSE z

FQDNs == {fqdn_for_pod(id[2]) : id \in PodIds}

\* at start pod a/p1 runs and matches the selector, pod b/p1 does not exist
InitPod(id) ==
    IF id[1] = "a"
    THEN [present |-> TRUE, uid |-> 0, labels |-> LblMatch, ip |-> "10.0.0.1"]
    ELSE Absent


----------------------------------------------------------------------------
(* The tasks *)

\* a thread's local state: kind is "main", "timer" or "watch"; ns is the
\* namespace a _watch_ns thread was started for; pc is where it is; reason is
\* the argument of its running reconcile_all; pods is the list that
\* list_source_pods has built so far; idx is the index of the for-loop it is
\* in; ready is the outcome of its latest pdns_ready(); ev is the event
\* _dispatch_event is handling and inbox the events its stream has buffered;
\* evCalls counts the PATCH requests of the DNS call the handler has just made
\* for ev (until its reconcile_all makes its first call) and evPasses the
\* reconcile_all calls the handler made for ev
NewTask(kind, ns, at) ==
    [kind |-> kind, ns |-> ns, pc |-> at, reason |-> "", pods |-> << >>, idx |-> 0,
     ready |-> "na", ev |-> NoEvent, inbox |-> << >>, evCalls |-> 0, evPasses |-> 0]

TaskSet == BagToSet(tasks)

\* the task in local state w takes a step to w2
Step(w, w2) == tasks' = (tasks (-) SetToBag({w})) (+) SetToBag({w2})

\* the process as __main__ finds it: the periodic thread is started first
Boot ==
    /\ rv = 0
    /\ zone = [f \in FQDNs |-> NoIP]
    /\ sink = NoDoc
    /\ passes = 0
    /\ tasks = SetToBag({NewTask("main", "", "startup"), NewTask("timer", "", "tick")})
    /\ call = NoCall

\* the default configuration: all namespaces are watched
Init ==
    /\ cfg = WATCH_NAMESPACES
    /\ cluster = [id \in PodIds |-> InitPod(id)]
    /\ Boot

\* WATCH_NAMESPACES=a: the process starts with or without a pod in namespace a
InitNs ==
    /\ cfg = WatchOnlyA
    /\ cluster \in {[id \in PodIds |-> InitPod(id)], [id \in PodIds |-> Absent]}
    /\ Boot

----------------------------------------------------------------------------
(* The cluster changes: pods come, change and go; streams deliver events *)

\* a watch stream is open from w.stream() until it raises; it buffers events
\* while the handler of an earlier event runs
Connected(w) ==
    \/ w.pc = "stream"
    \/ w.pc \in PassPcs \cup {"except"} /\ w.reason \in {"pod_added", "pod_deleted"}

InScope(w, ns) == IF w.kind = "main" THEN TRUE ELSE w.ns = ns

Deliver(w, e) ==
    IF Connected(w) /\ InScope(w, e.object.ns)
    THEN [w EXCEPT !.inbox = Append(w.inbox, e)] ELSE w

\* every open stream in scope gets the event; Deliver maps no two local states
\* to one, so each keeps its number of copies
Emit(e) ==
    LET S == BagToSet(tasks) IN
    tasks' = [x \in {Deliver(w, e) : w \in S} |->
                 tasks[CHOOSE w \in S : Deliver(w, e) = x]]

\* no list and no stream of the controller shows a pod outside WATCH_NAMESPACES:
\* only the pods it can see are let change
Watched(id) == cfg = << >> \/ \E i \in 1 .. Len(cfg) : cfg[i] = id[1]

ClusterCreate ==
    /\ rv < MaxChanges
    /\ \E id \in PodIds, lbl \in LabelSets :
        /\ Watched(id)
        /\ ~cluster[id].present
        /\ LET c == [present |-> TRUE, uid |-> rv + 1, labels |-> lbl, ip |-> NoIP] IN
           /\ cluster' = [cluster EXCEPT ![id] = c]
           /\ Emit([type |-> "ADDED", object |-> PodObject(id, c)])
    /\ rv' = rv + 1
    /\ UNCHANGED <<cfg, zone, sink, passes, call>>

\* a pending pod gets its IP, or a pod's labels change
ClusterModify ==
    /\ rv < MaxChanges
    /\ \E id \in PodIds, lbl \in LabelSets :
        /\ Watched(id)
        /\ cluster[id].present
        /\ LET c == IF lbl = cluster[id].labels
                    THEN [cluster[id] EXCEPT !.ip = IpOfUid(cluster[id].uid)]
                    ELSE [cluster[id] EXCEPT !.labels = lbl]
           IN
           /\ c # cluster[id]
           /\ cluster' = [cluster EXCEPT ![id] = c]
           /\ Emit([type |-> "MODIFIED", object |-> PodObject(id, c)])
    /\ rv' = rv + 1
    /\ UNCHANGED <<cfg, zone, sink, passes, call>>

ClusterDelete ==
    /\ rv < MaxChanges
    /\ \E id \in PodIds :
        /\ Watched(id)
        /\ cluster[id].present
        /\ cluster' = [cluster EXCEPT ![id] = Absent]
        /\ Emit([type |-> "DELETED", object |-> PodObject(id, cluster[id])])
    /\ rv' = rv + 1
    /\ UNCHANGED <<cfg, zone, sink, passes, call>>

----------------------------------------------------------------------------
(* reconcile_all, one external call per step *)

\* passes counts the calls of reconcile_all, so that a run of the checked
\* behaviours can be bounded by MaxPasses; a negative passes stands for a run
\* without that bound and is left as it is
CountedPass == IF passes < 0 THEN passes ELSE passes + 1

\* where a caller of reconcile_all goes on when the call returns
return_target(rsn) ==
    CASE rsn = "startup"  -> "connect"
      [] rsn = "periodic" -> "tick"
      [] OTHER            -> "stream"

\* a periodic loop whose body stands outside any try: the thread ends
except_target_unguarded(rsn) ==
    CASE rsn = "startup"  -> "connect"
      [] rsn = "periodic" -> "dead"
      [] OTHER            -> "stream"

\* where the except clause around a reconcile_all call leaves the caller:
\* __main__, _periodic_reconciler and both handlers print the traceback and go on
except_target(rsn) ==
    CASE rsn = "startup"  -> "connect"
      [] rsn = "periodic" -> "tick"
      [] OTHER            -> "stream"

\* the unit of work of a task is over: its locals are dropped
DropLocals(w) ==
    [w EXCEPT !.reason = "", !.pods = << >>, !.idx = 0, !.ready = "na",
              !.ev = NoEvent, !.evCalls = 0, !.evPasses = 0]

\* reconcile_all is entered
BeginPass(w, rsn) ==
    [w EXCEPT !.pc = "list", !.reason = rsn, !.pods = << >>, !.idx = 1]

\* reconcile_all returns to its caller
ReturnPass(w) == [DropLocals(w) EXCEPT !.pc = return_target(w.reason)]

\* a call inside reconcile_all raises: reconcile_all has no try, the exception
\* reaches its caller
RaisePass(w) ==
    [w EXCEPT !.pc = "except", !.pods = << >>, !.idx = 0, !.ready = "na", !.evCalls = 0]

\* `except Exception: traceback.print_exc()` around the reconcile_all call
CatchPass(w) ==
    /\ w.pc = "except"
    /\ Step(w, [DropLocals(w) EXCEPT !.pc = except_target(w.reason)])
    /\ UNCHANGED <<cfg, cluster, rv, zone, sink, passes, call>>

\* a pass that goes on to the upserts whatever its probe said
AfterListUngated(w, listed, resp) ==
    IF build_peers(listed) # << >>
    THEN [w EXCEPT !.pods = listed, !.ready = IF pdns_ready(resp) THEN "yes" ELSE "no",
                   !.pc = "dns", !.idx = 1, !.evCalls = 0]
    ELSE [w EXCEPT !.pods = listed, !.ready = IF pdns_ready(resp) THEN "yes" ELSE "no",
                   !.pc = "sink", !.idx = 0, !.evCalls = 0]

\* after the last list call: build_peers, then `if pdns_ready():`; the probe
\* reads nothing the tasks share, so it is taken in the same step
AfterList(w, listed, resp) ==
    LET r == pdns_ready(resp) IN
    IF r /\ build_peers(listed) # << >>
    THEN [w EXCEPT !.pods = listed, !.ready = "yes", !.pc = "dns", !.idx = 1,
                   !.evCalls = 0]
    ELSE [w EXCEPT !.pods = listed, !.ready = IF r THEN "yes" ELSE "no",
                   !.pc = "sink", !.idx = 0, !.evCalls = 0]

\* list_source_pods: one list call, for all namespaces or for the next of
\* WATCH_NAMESPACES; the call may raise
ListPods(w) ==
    /\ w.pc = "list"
    /\ \/ Step(w, RaisePass(w))
       \/ /\ cfg = << >>
          /\ \E listed \in {list_pod_for_all_namespaces} :
             \E w2 \in {AfterList(w, listed, resp) : resp \in ProbeResponses} :
                Step(w, w2)
       \/ /\ cfg # << >>
          /\ \E listed \in {w.pods \o list_namespaced_pod(cfg[w.idx])} :
             IF w.idx < Len(cfg)
             THEN Step(w, [w EXCEPT !.pods = listed, !.idx = w.idx + 1, !.evCalls = 0])
             ELSE \E w2 \in {AfterList(w, listed, resp) : resp \in ProbeResponses} :
                     Step(w, w2)
    /\ UNCHANGED <<cfg, cluster, rv, zone, sink, passes, call>>

\* a loop over the peers that calls pdns_upsert_a_record itself, outside any try
UpsertPeerRaises(w) ==
    /\ w.pc = "dns"
    /\ LET peers == build_peers(w.pods)
           peer  == peers[w.idx]
       IN  \E resp \in {UpsertAnswer(1, 0), UpsertAnswer(1, 1)} :
              IF pdns_upsert_a_record(resp) = "ok"
              THEN /\ zone' = ZoneAfterUpsert(zone, fqdn_for_pod(peer.name), peer.ip, TRUE)
                   /\ IF w.idx < Len(peers)
                      THEN Step(w, [w EXCEPT !.idx = w.idx + 1])
                      ELSE Step(w, [w EXCEPT !.idx = 0, !.pc = "sink"])
              ELSE /\ zone' = zone
                   /\ Step(w, RaisePass(w))
    /\ UNCHANGED <<cfg, cluster, rv, sink, passes, call>>

\* a loop over the peers that gives up at the first peer whose upsert failed
UpsertPeerStopsAtFailure(w) ==
    /\ w.pc = "dns"
    /\ LET peers == build_peers(w.pods)
           peer  == peers[w.idx]
       IN  \E fails \in FailChoices :
              LET ok == pdns_upsert_with_retry(fails, attempts).ok IN
              /\ zone' = ZoneAfterUpsert(zone, fqdn_for_pod(peer.name), peer.ip, ok)
              /\ IF ok /\ w.idx < Len(peers)
                 THEN Step(w, [w EXCEPT !.idx = w.idx + 1])
                 ELSE Step(w, [w EXCEPT !.idx = 0, !.pc = "sink"])
    /\ UNCHANGED <<cfg, cluster, rv, sink, passes, call>>

\* one turn of `for peer in peers:`: pdns_upsert_with_retry(fqdn, peer['ip'])
UpsertPeer(w) ==
    /\ w.pc = "dns"
    /\ \E peers \in {build_peers(w.pods)} : \E peer \in {peers[w.idx]} :
           /\ zone' \in {ZoneAfterUpsert(zone, fqdn_for_pod(peer.name), peer.ip,
                                          pdns_upsert_with_retry(fails, attempts).ok) :
                              fails \in FailChoices}
           /\ IF w.idx < Len(peers)
              THEN Step(w, [w EXCEPT !.idx = w.idx + 1])
              ELSE Step(w, [w EXCEPT !.idx = 0, !.pc = "sink"])
    /\ UNCHANGED <<cfg, cluster, rv, sink, passes, call>>

\* what a call of the cluster API does: it returns, raises ApiException with
\* an HTTP status, or raises something else (a connection error)
Returned == [kind |-> "return", status |-> 200]
ApiException(status) == [kind |-> "ApiException", status |-> status]
OtherError == [kind |-> "Exception", status |-> 0]

\* read_namespaced_config_map finds the document or reports 404, or fails
ReadAnswers(doc) ==
    (IF doc.exists THEN {Returned} ELSE {ApiException(404)})
        \cup {ApiException(500), OtherError}

\* replace_namespaced_config_map; 404 when the document went away after the read
ReplaceAnswers == {Returned, ApiException(404), ApiException(409), OtherError}

\* create_namespaced_config_map
CreateAnswers == {Returned, ApiException(409), OtherError}

\* the except clause of upsert_configmap at status 404: create; what create
\* raises leaves the function
create_on_404(before, calls, data, cr) ==
    IF cr = Returned
    THEN [doc |-> data, calls |-> calls \o <<"create">>, raised |-> FALSE]
    ELSE [doc |-> before, calls |-> calls \o <<"create">>, raised |-> TRUE]

\* a replace that writes peers.json into the data it read and leaves
\* peers.list as it was
config_map_patching(doc, data, rd, rp, cr) ==
    IF rd = Returned
    THEN IF rp = Returned
         THEN [doc |-> [doc EXCEPT !.json = data.json],
               calls |-> <<"read", "replace">>, raised |-> FALSE]
         ELSE [doc |-> doc, calls |-> <<"read", "replace">>, raised |-> TRUE]
    ELSE IF rd.kind = "ApiException" /\ rd.status = 404
         THEN create_on_404(doc, <<"read">>, data, cr)
         ELSE [doc |-> doc, calls |-> <<"read">>, raised |-> TRUE]

\* the try statement of upsert_configmap on document doc, given what read,
\* replace and create do: the try holds the read and the replace, `except
\* ApiException` creates at status 404 and raises again otherwise, any other
\* exception passes through
config_map_calls(doc, data, rd, rp, cr) ==
    IF rd = Returned
    THEN IF rp = Returned
         THEN [doc |-> data, calls |-> <<"read", "replace">>, raised |-> FALSE]
         ELSE IF rp.kind = "ApiException" /\ rp.status = 404
              THEN create_on_404(NoDoc, <<"read", "replace">>, data, cr)
              ELSE [doc |-> doc, calls |-> <<"read", "replace">>, raised |-> TRUE]
    ELSE IF rd.kind = "ApiException" /\ rd.status = 404
         THEN create_on_404(doc, <<"read">>, data, cr)
         ELSE [doc |-> doc, calls |-> <<"read">>, raised |-> TRUE]

\* upsert_configmap(peers): the data, then the try statement
upsert_configmap_result(doc, peers, rd, rp, cr) ==
    config_map_calls(doc, ConfigMapData(peers), rd, rp, cr)

\* upsert_configmap(peers), the last statement of reconcile_all.  No task of
\* the controller deletes the document, so a replace after a read that found
\* it does not meet 404 here
upsert_configmap(w) ==
    /\ w.pc = "sink"
    /\ \E peers \in {build_peers(w.pods)} : \E data \in {ConfigMapData(peers)} :
       \E r \in { config_map_calls(sink, data, rd, rp, cr) :
                    rd \in ReadAnswers(sink),
                    rp \in ReplaceAnswers \ {ApiException(404)},
                    cr \in CreateAnswers } :
          /\ sink' = r.doc
          /\ Step(w, IF r.raised THEN RaisePass(w) ELSE ReturnPass(w))
    /\ UNCHANGED <<cfg, cluster, rv, zone, passes, call>>

----------------------------------------------------------------------------
(* The threads *)

\* __main__: reconcile_all("startup") inside try/except, then watch_pods()
Startup(w) ==
    /\ w.kind = "main"
    /\ w.pc = "startup"
    /\ passes < MaxPasses
    /\ passes' = CountedPass
    /\ Step(w, BeginPass(w, "startup"))
    /\ UNCHANGED <<cfg, cluster, rv, zone, sink, call>>

\* a periodic loop that reconciles without asking pdns_ready first
PeriodicTickUngated(w) ==
    /\ w.kind = "timer"
    /\ w.pc = "tick"
    /\ passes < MaxPasses
    /\ passes' = CountedPass
    /\ \E resp \in ProbeResponses :
          Step(w, [BeginPass(w, "periodic") EXCEPT
                      !.ready = IF pdns_ready(resp) THEN "yes" ELSE "no"])
    /\ UNCHANGED <<cfg, cluster, rv, zone, sink, call>>

\* _periodic_reconciler: `if pdns_ready(): reconcile_all("periodic")`, once
\* time.sleep(RECONCILE_INTERVAL) is over; a timer at "tick" sleeps or is about
\* to probe, and ready keeps the outcome of the probe of its latest turn
PeriodicTick(w) ==
    /\ w.kind = "timer"
    /\ w.pc = "tick"
    /\ \E ready \in {pdns_ready(resp) : resp \in ProbeResponses} :
        IF ready
        THEN /\ passes < MaxPasses
             /\ passes' = CountedPass
             /\ Step(w, [BeginPass(w, "periodic") EXCEPT !.ready = "yes"])
        ELSE /\ passes' = passes
             /\ Step(w, [w EXCEPT !.ready = "no"])
    /\ UNCHANGED <<cfg, cluster, rv, zone, sink, call>>

\* the ADDED events a new watch starts with: one per pod in its scope
RECURSIVE InitialEvents(_)
InitialEvents(podList) ==
    IF podList = << >> THEN << >>
    ELSE << [type |-> "ADDED", object |-> Head(podList)] >> \o InitialEvents(Tail(podList))

\* the head of `while True:` in watch_pods and _watch_ns: with WATCH_NAMESPACES
\* set, watch_pods goes into its for-loop; otherwise the task opens its stream
WatchLoop(w) ==
    /\ w.pc = "connect"
    /\ IF w.kind = "main" /\ cfg # << >>
       THEN Step(w, [w EXCEPT !.pc = "spawn", !.idx = 1])
       ELSE Step(w, [w EXCEPT !.pc = "stream", !.inbox =
                 InitialEvents(ListFrom(PodOrder, cluster,
                                        IF w.kind = "main" THEN Namespaces ELSE {w.ns}))])
    /\ UNCHANGED <<cfg, cluster, rv, zone, sink, passes, call>>

\* the stream raises: the except clause prints the traceback, the loop goes round
StreamError(w) ==
    /\ w.pc = "stream"
    /\ Step(w, [w EXCEPT !.pc = "connect", !.inbox = << >>])
    /\ UNCHANGED <<cfg, cluster, rv, zone, sink, passes, call>>

NumWatchers == BagCardinality(tasks) - 2

\* one turn of `for ns in WATCH_NAMESPACES: threading.Thread(...).start()` in
\* watch_pods; nothing blocks, so after the last namespace `while True` starts
\* the for-loop again; start() raises RuntimeError when the process can start
\* no more threads, the except clause prints it and the loop goes round
SpawnWatcher(w) ==
    /\ w.kind = "main"
    /\ w.pc = "spawn"
    /\ LET next == [w EXCEPT !.idx = IF w.idx < Len(cfg) THEN w.idx + 1 ELSE 1]
           born == NewTask("watch", cfg[w.idx], "connect")
       IN  IF NumWatchers < MaxThreads
           THEN tasks' = ((tasks (-) SetToBag({w})) (+) SetToBag({next})) (+) SetToBag({born})
           ELSE Step(w, [w EXCEPT !.idx = 1])
    /\ UNCHANGED <<cfg, cluster, rv, zone, sink, passes, call>>

\* _match_selector(pod.metadata.labels or {}, SOURCE_LABEL_SELECTOR), worked
\* out once for each set of labels a pod carries
SelectorMatches == [l \in LabelSets |-> _match_selector(l, SOURCE_LABEL_SELECTOR)]

\* a handler that forgets to wait for the pod's IP
added_accepts_without_ip(pod) == SelectorMatches[pod.labels]

\* the tests at the head of handle_pod_added
added_accepts(pod) ==
    /\ SelectorMatches[pod.labels]
    /\ pod.ip # NoIP

\* a handler whose selector test is the wrong way round
deleted_accepts_inverted(pod) == ~SelectorMatches[pod.labels]

\* the tests at the head of handle_pod_deleted
deleted_accepts(pod) == SelectorMatches[pod.labels]

\* the stream yields its next event: _dispatch_event, and the handler up to its
\* call of reconcile_all
DispatchEvent(w) ==
    /\ w.pc = "stream"
    /\ w.inbox # << >>
    /\ LET e    == Head(w.inbox)
           pod  == e.object
           fqdn == fqdn_for_pod(pod.name)
           took == [w EXCEPT !.inbox = Tail(w.inbox)]
       IN  \/ /\ e.type \in {"ADDED", "MODIFIED"}
              /\ added_accepts(pod)
              /\ passes < MaxPasses
              /\ passes' = CountedPass
              /\ \E fails \in FailChoices :
                    LET r == pdns_upsert_with_retry(fails, attempts) IN
                    /\ zone' = ZoneAfterUpsert(zone, fqdn, pod.ip, r.ok)
                    /\ Step(w, [BeginPass(took, "pod_added") EXCEPT
                                   !.ev = e, !.evCalls = r.calls, !.evPasses = 1])
           \/ /\ e.type = "DELETED"
              /\ deleted_accepts(pod)
              /\ passes < MaxPasses
              /\ passes' = CountedPass
              /\ zone' \in {ZoneAfterDelete(zone, fqdn, resp) : resp \in DeleteResponses}
              /\ Step(w, [BeginPass(took, "pod_deleted") EXCEPT
                             !.ev = e, !.evCalls = 1, !.evPasses = 1])
           \/ /\ \/ e.type \in {"ADDED", "MODIFIED"} /\ ~added_accepts(pod)
                 \/ e.type = "DELETED" /\ ~deleted_accepts(pod)
              /\ Step(w, took)
              /\ UNCHANGED <<zone, passes>>
    /\ UNCHANGED <<cfg, cluster, rv, sink, call>>

----------------------------------------------------------------------------

Next ==
    \/ ClusterCreate
    \/ ClusterModify
    \/ ClusterDelete
    \/ \E w \in TaskSet : Startup(w)
    \/ \E w \in TaskSet : PeriodicTick(w)
    \/ \E w \in TaskSet : WatchLoop(w)
    \/ \E w \in TaskSet : StreamError(w)
    \/ \E w \in TaskSet : DispatchEvent(w)
    \/ \E w \in TaskSet : ListPods(w)
    \/ \E w \in TaskSet : UpsertPeer(w)
    \/ \E w \in TaskSet : upsert_configmap(w)
    \/ \E w \in TaskSet : CatchPass(w)

Spec == Init /\ [][Next]_vars

\* the default configuration in a cluster where a/p1 and b/p1 both run and
\* match the selector (two pods of one name in two namespaces), or where a/p1
\* runs alone
PairPod(id) ==
    [present |-> TRUE, uid |-> 0, labels |-> LblMatch,
     ip |-> IF id[1] = "a" THEN "10.0.0.1" ELSE "10.0.0.2"]

InitPair ==
    /\ cfg = WATCH_NAMESPACES
    /\ cluster \in {[id \in PodIds |-> PairPod(id)], [id \in PodIds |-> InitPod(id)]}
    /\ Boot

SpecPair == InitPair /\ [][Next]_vars

\* with WATCH_NAMESPACES set, watch_pods starts _watch_ns threads as well
NextNs ==
    \/ Next
    \/ \E w \in TaskSet : SpawnWatcher(w)

SpecNs == InitNs /\ [][NextNs]_vars

----------------------------------------------------------------------------
(* What the claims speak of *)

\* the task in local state w steps to w2 and no other task changes
Moves(w, w2) ==
    /\ w # w2
    /\ tasks' = (tasks (-) SetToBag({w})) (+) SetToBag({w2})

Range(f) == {f[i] : i \in DOMAIN f}

\* the (name, namespace, ip) objects a reader finds in the JSON of a document
JsonPeers(doc) ==
    IF ~doc.exists THEN {}
    ELSE { <<doc.json[i + 2], doc.json[i + 4], doc.json[i + 6]>> :
             i \in {j \in 1 .. Len(doc.json) : doc.json[j] = "{"} }

\* the lines a reader finds in the flat list of a document
ListLines(doc) ==
    IF ~doc.exists THEN {}
    ELSE {doc.list[i] : i \in {j \in 1 .. Len(doc.list) : doc.list[j] # "\n"}}

\* the pods of a list that have an IP
WithIP(podList) == {q \in Range(podList) : q.ip # NoIP}

\* doc is the projection of podList: its pods with an IP, and no others
Projects(doc, podList) ==
    /\ doc.exists
    /\ JsonPeers(doc) = {<<q.name, q.ns, q.ip>> : q \in WithIP(podList)}
    /\ ListLines(doc) = {q.ip : q \in WithIP(podList)}

\* where each caller of reconcile_all stands once the call is over
AfterPass(w) ==
    CASE w.kind = "timer" -> "tick"
      [] w.kind = "watch" -> "stream"
      [] OTHER            -> IF w.reason = "startup" THEN "connect" ELSE "stream"

\* C2 as claimed: a pass whose readiness probe failed issues no DNS upsert,
\* publishes the projection of the pods it listed and does not raise
C2_PublishesAndReturns ==
    [][ /\ \A w \in BagToSet(tasks') :
              (w.pc \in PassPcs /\ w.ready = "no") => w.pc = "sink"
        /\ \A w \in TaskSet : (w.pc = "sink" /\ w.ready = "no") =>
              \A w2 \in BagToSet(tasks') : (w2.pc # "sink" /\ Moves(w, w2)) =>
                  /\ zone' = zone
                  /\ Projects(sink', w.pods)
                  /\ w2.pc = AfterPass(w) ]_vars

\* C2, amended: a pass whose readiness probe failed issues no DNS upsert and
\* goes on to the sink; there it publishes the projection of the pods it
\* listed and returns, unless the sink call itself fails: then the sink stays
\* as it was and the error leaves reconcile_all for the caller's except clause
C2_PublishesUnlessSinkFails ==
    [][ /\ \A w \in BagToSet(tasks') :
              (w.pc \in PassPcs /\ w.ready = "no") => w.pc = "sink"
        /\ \A w \in TaskSet : (w.pc = "sink" /\ w.ready = "no") =>
              \A w2 \in BagToSet(tasks') : (w2.pc # "sink" /\ Moves(w, w2)) =>
                  /\ zone' = zone
                  /\ \/ Projects(sink', w.pods) /\ w2.pc = AfterPass(w)
                     \/ sink' = sink /\ w2.pc = "except" ]_vars

\* a pass with a failed probe stands before the sink with a pod to publish
C2_Witness ==
    \E w \in TaskSet :
        /\ w.pc = "sink"
        /\ w.ready = "no"
        /\ WithIP(w.pods) # {}

\* C3 as claimed: no error leaves reconcile_all
C3_NeverRaises == \A w \in TaskSet : w.pc # "except"

\* C3, amended: an error of a list call or of the sink call leaves
\* reconcile_all, which has no try of its own, with zone and sink as they
\* were, and the except clause around the call (in __main__, in
\* _periodic_reconciler, in both handlers) takes it and the caller goes on; a
\* failed probe or a failed upsert raises nothing
C3_CallersCatch ==
    [][ /\ \A w2 \in BagToSet(tasks') : w2.pc = "except" =>
              \A w \in TaskSet : (w.pc # "except" /\ Moves(w, w2)) =>
                  (w.pc \in {"list", "sink"} /\ zone' = zone /\ sink' = sink)
        /\ \A w \in TaskSet : w.pc = "except" =>
              \A w2 \in BagToSet(tasks') : (w2.pc # "except" /\ Moves(w, w2)) =>
                  (w2.pc = AfterPass(w) /\ zone' = zone /\ sink' = sink)
        /\ \A w \in TaskSet : w.pc = "dns" =>
              \A w2 \in BagToSet(tasks') : Moves(w, w2) => w2.pc \in {"dns", "sink"}
        /\ \A w \in TaskSet : w.pc = "list" =>
              \A w2 \in BagToSet(tasks') :
                  (w2.ready = "no" /\ Moves(w, w2)) => w2.pc = "sink" ]_vars

\* the error of a pass is on its way to the except clause of the timer loop
C3_Witness ==
    \E w \in TaskSet :
        /\ w.kind = "timer"
        /\ w.pc = "except"
        /\ w.reason = "periodic"

\* the places where a task of the given kind runs
RunningPcs(kind) ==
    CASE kind = "main"  -> {"startup", "list", "dns", "sink", "except", "connect",
                            "spawn", "stream"}
      [] kind = "timer" -> {"tick", "list", "dns", "sink", "except"}
      [] OTHER          -> {"connect", "stream", "list", "dns", "sink", "except"}

\* the number of tasks of the given kind
Count(kind) ==
    BagCardinality([w \in {x \in TaskSet : x.kind = kind} |-> tasks[w]])

\* C4: whatever external call fails in a pass or a handler, the main sequence,
\* the periodic loop and every watch loop are still running: each task stands
\* at a place of its loop, none has ended
C4_TasksKeepRunning ==
    /\ \A w \in TaskSet : w.pc \in RunningPcs(w.kind)
    /\ Count("main") = 1
    /\ Count("timer") = 1

\* a handler's pass and a periodic pass have both raised
C4_Witness ==
    /\ \E w \in TaskSet :
          w.kind # "timer" /\ w.pc = "except" /\ w.reason \in {"pod_added", "pod_deleted"}
    /\ \E w \in TaskSet : w.kind = "timer" /\ w.pc = "except"

\* the step in which task w takes the event at the head of its stream
Dispatches(w, w2) ==
    /\ w.pc = "stream"
    /\ w.inbox # << >>
    /\ w2.pc \in {"stream", "list"}
    /\ w2.inbox = Tail(w.inbox)
    /\ Moves(w, w2)

\* the pod of an event carries the labels SOURCE_LABEL_SELECTOR asks for
Labelled(pod) ==
    \E k \in DOMAIN pod.labels :
        k = <<"d", "n", "s">> /\ pod.labels[k] = <<"t", "r", "u", "e">>

\* C5 as claimed: every dispatched event causes at most one request to the
\* DNS API and exactly one reconcile_all
C5_OneCallOnePass ==
    [][ \A w \in TaskSet, w2 \in BagToSet(tasks') :
          Dispatches(w, w2) =>
            /\ w2.evCalls <= 1
            /\ w2.evPasses = 1
            /\ passes' = passes + 1 ]_vars

\* C5, amended: an event whose pod matches the selector (and, for ADDED and
\* MODIFIED, has an IP) causes one incremental DNS operation, which is one
\* request for a delete and between 1 and `attempts` requests for an upsert
\* with its retries, and exactly one reconcile_all; every other dispatched
\* event causes no DNS request and no reconcile_all
C5_HandledOrFiltered ==
    [][ /\ \A w \in TaskSet, w2 \in BagToSet(tasks') :
              Dispatches(w, w2) =>
                LET e == Head(w.inbox) IN
                IF Labelled(e.object) /\ (e.type = "DELETED" \/ e.object.ip # NoIP)
                THEN /\ w2.pc = "list"
                     /\ w2.ev = e
                     /\ w2.evPasses = 1
                     /\ passes' = passes + 1
                     /\ w2.evCalls >= 1
                     /\ w2.evCalls <= (IF e.type = "DELETED" THEN 1 ELSE attempts)
                ELSE /\ w2.pc = "stream"
                     /\ w2.evCalls = 0
                     /\ w2.evPasses = 0
                     /\ passes' = passes
                     /\ zone' = zone
        /\ \A w \in TaskSet : w.ev # NoEvent =>
              \A w2 \in BagToSet(tasks') :
                  Moves(w, w2) => (passes' = passes /\ w2.evPasses <= 1) ]_vars

\* an upsert that needed retries stands behind an ADDED event
C5_Witness ==
    \E w \in TaskSet :
        /\ w.ev # NoEvent
        /\ w.ev.type = "ADDED"
        /\ w.evCalls > 1
        /\ w.evPasses = 1

\* the number of _watch_ns threads watching namespace n
WatchersOf(n) ==
    BagCardinality([w \in {x \in TaskSet : x.kind = "watch" /\ x.ns = n} |-> tasks[w]])

\* C6: the tasks are the main sequence, one periodic timer and at most one
\* watch task per namespace
C6_OneWatcherPerScope ==
    /\ Count("main") = 1
    /\ Count("timer") = 1
    /\ \A n \in Namespaces : WatchersOf(n) <= 1

\* C8: a step of the periodic loop whose probe fails changes nothing (no list,
\* no upsert, sink as it was, the loop stays where it sleeps); one whose probe
\* succeeds enters reconcile_all("periodic"), once
C8_TickGated ==
    [][ \A w \in TaskSet : (w.kind = "timer" /\ w.pc = "tick") =>
          \A w2 \in BagToSet(tasks') : Moves(w, w2) =>
            /\ zone' = zone
            /\ sink' = sink
            /\ \/ /\ w2.ready = "no"
                  /\ w2 = [w EXCEPT !.ready = "no"]
                  /\ passes' = passes
               \/ /\ w2.ready = "yes"
                  /\ w2.pc = "list"
                  /\ w2.reason = "periodic"
                  /\ w2.pods = << >>
                  /\ passes' = passes + 1 ]_vars

\* the periodic loop sleeps after a probe that failed, nothing published yet
C8_Witness ==
    /\ sink = NoDoc
    /\ \E w \in TaskSet : w.kind = "timer" /\ w.pc = "tick" /\ w.ready = "no"

\* the DELETED events of selected pods that task h has received: the one its
\* handler works on and those its stream holds
DeletedSeen(h) ==
    {e \in {h.ev} \cup Range(h.inbox) : e.type = "DELETED" /\ Labelled(e.object)}

\* the pod of a DELETED event is gone from the cluster
Gone(pod) ==
    \/ ~cluster[<<pod.ns, pod.name>>].present
    \/ cluster[<<pod.ns, pod.name>>].uid # pod.uid

InDoc(doc, pod) ==
    \/ <<pod.name, pod.ns, pod.ip>> \in JsonPeers(doc)
    \/ pod.ip \in ListLines(doc)

\* the handler of a DELETED event of a selected pod sends one delete request
\* for the pod's name in the zone
DeleteIssued ==
    \A w \in TaskSet, w2 \in BagToSet(tasks') :
        (w.inbox # << >> /\ Head(w.inbox).type = "DELETED"
                        /\ Labelled(Head(w.inbox).object) /\ Dispatches(w, w2)) =>
            /\ w2.evCalls = 1
            /\ w2.pc = "list"
            /\ w2.reason = "pod_deleted"
            /\ zone' \in {zone, [zone EXCEPT
                   ![Head(w.inbox).object.name \o ".example.com."] = NoIP]}

\* C9 as claimed: the DELETED event of a selected pod makes its handler issue
\* a DNS delete, and every publish after the deletion, by whatever task, omits
\* the pod from the JSON and from the flat list
C9_NextPublishOmits ==
    [][ /\ DeleteIssued
        /\ \A w \in TaskSet, w2 \in BagToSet(tasks') :
              (w.pc = "sink" /\ w2.pc \notin {"sink", "except"} /\ Moves(w, w2)) =>
                 \A h \in TaskSet : \A e \in DeletedSeen(h) :
                     Gone(e.object) => ~InDoc(sink', e.object) ]_vars

\* C9, amended: the DELETED event of a selected pod makes its handler issue a
\* DNS delete, and the publish of the pass that this handler then runs omits
\* the pod (unless a new pod of its namespace and name was listed); a pass of
\* another task that listed the pods before the deletion still publishes it
C9_HandlerPublishOmits ==
    [][ /\ DeleteIssued
        /\ \A w \in TaskSet, w2 \in BagToSet(tasks') :
              (w.pc = "sink" /\ w.ev # NoEvent /\ w.ev.type = "DELETED"
                           /\ w2.pc \notin {"sink", "except"} /\ Moves(w, w2)) =>
                 \/ ~InDoc(sink', w.ev.object)
                 \/ \E q \in Range(w.pods) :
                       /\ q.ns = w.ev.object.ns
                       /\ q.name = w.ev.object.name
                       /\ q.uid # w.ev.object.uid ]_vars

\* the handler of a DELETED event has listed the pods, the sink still names
\* the deleted pod
C9_Witness ==
    \E w \in TaskSet :
        /\ w.ev # NoEvent
        /\ w.ev.type = "DELETED"
        /\ w.pc = "sink"
        /\ InDoc(sink, w.ev.object)
        /\ Gone(w.ev.object)

----------------------------------------------------------------------------
(* The pure functions on their own: Init draws the arguments, the one action *)
(* applies the function; the controller's state stands still                 *)

Idle ==
    /\ cfg = << >>
    /\ cluster = [id \in PodIds |-> InitPod(id)]
    /\ rv = 0
    /\ zone = [f \in FQDNs |-> NoIP]
    /\ sink = NoDoc
    /\ passes = 0
    /\ tasks = EmptyBag

InitRetry ==
    /\ Idle
    /\ \E N \in 0 .. MaxFails, A \in 1 .. MaxAttempts :
          call = [fn |-> "pdns_upsert_with_retry", fails |-> N, attempts |-> A,
                  done |-> FALSE, res |-> [ok |-> FALSE, calls |-> 0, raised |-> FALSE]]

CallRetry ==
    /\ call.fn = "pdns_upsert_with_retry"
    /\ ~call.done
    /\ call' = [call EXCEPT !.done = TRUE,
                            !.res = pdns_upsert_with_retry(call.fails, call.attempts)]
    /\ UNCHANGED <<cfg, cluster, rv, zone, sink, passes, tasks>>

SpecRetry == InitRetry /\ [][CallRetry]_vars

\* C1: pdns_upsert_with_retry with attempts = A >= 1 against an upsert that
\* fails its first N calls returns True iff N < A, calls pdns_upsert_a_record
\* exactly min(N + 1, A) times, and never raises
C1_RetryResult ==
    call.done =>
        /\ call.res.ok = (call.fails < call.attempts)
        /\ call.res.calls = Min(call.fails + 1, call.attempts)
        /\ ~call.res.raised

\* a retry that got through after the API had failed it
C1_Witness ==
    /\ call.done
    /\ call.fails > 0
    /\ call.attempts > 1
    /\ call.res.ok
    /\ call.res.calls = call.fails + 1

\* response bodies: a message with up to MaxPad characters before and after it
Messages ==
    { << >>,
      <<"n", "o", "t", " ", "f", "o", "u", "n", "d">>,
      <<"N", "o", "t", " ", "F", "o", "u", "n", "d">>,
      <<"N", "O", "T", " ", "F", "O", "U", "N", "D">>,
      <<"n", "O", "t", " ", "f", "o", "u", "N", "d">>,
      <<"n", "o", "t", "f", "o", "u", "n", "d">>,
      <<"n", "o", "t", " ", " ", "f", "o", "u", "n", "d">>,
      <<"N", "o", "t", " ", "F", "o", "u", "n">>,
      <<"e", "r", "r", "o", "r">> }

Pad(c, n) == [i \in 1 .. n |-> c]

Bodies == {Pad("e", i) \o m \o Pad("R", j) : i \in 0 .. MaxPad, j \in 0 .. MaxPad, m \in Messages}

Statuses == {200, 204, 399, 400, 404, 422, 500}

InitDelete ==
    /\ Idle
    /\ \E resp \in {NetErr} \cup {Http(st, b) : st \in Statuses, b \in Bodies} :
          call = [fn |-> "pdns_delete_a_record", resp |-> resp, done |-> FALSE, res |-> ""]

CallDelete ==
    /\ call.fn = "pdns_delete_a_record"
    /\ ~call.done
    /\ call' = [call EXCEPT !.done = TRUE, !.res = pdns_delete_a_record(call.resp)]
    /\ UNCHANGED <<cfg, cluster, rv, zone, sink, passes, tasks>>

SpecDelete == InitDelete /\ [][CallDelete]_vars

UpperChar(c) ==
    CASE c = "n" -> "N"
      [] c = "o" -> "O"
      [] c = "t" -> "T"
      [] c = "f" -> "F"
      [] c = "u" -> "U"
      [] c = "d" -> "D"
      [] OTHER   -> c

\* "not found" stands somewhere in t, each letter in either case
SaysNotFound(t) ==
    \E i \in 1 .. Len(t) :
        /\ i + Len(NotFound) - 1 <= Len(t)
        /\ \A j \in 1 .. Len(NotFound) :
              t[i + j - 1] \in {NotFound[j], UpperChar(NotFound[j])}

\* C7: pdns_delete_a_record returns without error when the API answers with a
\* status below 400, or with a status >= 400 and a body that contains
\* "not found" in any letter case; for every other answer >= 400 it raises
C7_DeleteOutcome ==
    (call.done /\ call.resp.kind = "http") =>
        (call.res = "ok") = (call.resp.status < 400 \/ SaysNotFound(call.resp.text))

\* a delete of an absent record: 404 with "Not Found" inside the body
C7_Witness ==
    /\ call.done
    /\ call.resp.kind = "http"
    /\ call.resp.status = 404
    /\ SaysNotFound(call.resp.text)
    /\ ~Contains(call.resp.text, NotFound)
    /\ call.res = "ok"

\* selector strings and label maps for _match_selector
SelChars == {"a", "b", "=", ",", " "}

Selectors == UNION {[1 .. n -> SelChars] : n \in 0 .. MaxSelLen}

LabelMaps ==
    { [k \in {} |-> << >>],
      [k \in {<<"a">>} |-> <<"b">>],
      [k \in {<<"a">>} |-> <<"=", "b">>],
      [k \in {<<"a">>} |-> << >>],
      [k \in {<<"a">>, <<"b">>} |-> IF k = <<"a">> THEN <<"b">> ELSE <<"a">>] }

InitSel ==
    /\ Idle
    /\ \E L \in LabelMaps, S \in Selectors :
          call = [fn |-> "_match_selector", labels |-> L, selector |-> S,
                  done |-> FALSE, res |-> FALSE]

CallSel ==
    /\ call.fn = "_match_selector"
    /\ ~call.done
    /\ call' = [call EXCEPT !.done = TRUE,
                            !.res = _match_selector(call.labels, call.selector)]
    /\ UNCHANGED <<cfg, cluster, rv, zone, sink, passes, tasks>>

SpecSel == InitSel /\ [][CallSel]_vars

\* the places where a selector is cut: before it, at its commas, behind it
Cuts(S) == {0} \cup {i \in 1 .. Len(S) : S[i] = ","} \cup {Len(S) + 1}

\* the comma-separated pieces of S
Pieces(S) ==
    { SubSeq(S, p[1] + 1, p[2] - 1) :
        p \in {q \in Cuts(S) \X Cuts(S) :
                  q[1] < q[2] /\ ~\E c \in Cuts(S) : q[1] < c /\ c < q[2]} }

\* s without the blanks at its ends
Trimmed(s) ==
    LET inked == {i \in 1 .. Len(s) : s[i] # " "} IN
    IF inked = {} THEN << >>
    ELSE SubSeq(s, CHOOSE i \in inked : \A j \in inked : i <= j,
                   CHOOSE i \in inked : \A j \in inked : j <= i)

FirstEq(c) == CHOOSE i \in 1 .. Len(c) : c[i] = "=" /\ \A j \in 1 .. i - 1 : c[j] # "="

\* clause c, trimmed and not empty, read as the claim reads it: key and value
\* are what stands before and behind the first '='
SatisfiedExact(L, c) ==
    IF \E i \in 1 .. Len(c) : c[i] = "="
    THEN LET k == SubSeq(c, 1, FirstEq(c) - 1)
             v == SubSeq(c, FirstEq(c) + 1, Len(c))
         IN  k \in DOMAIN L /\ L[k] = v
    ELSE c \in DOMAIN L

\* the same with key and value trimmed after the split
SatisfiedTrimmed(L, c) ==
    IF \E i \in 1 .. Len(c) : c[i] = "="
    THEN LET k == Trimmed(SubSeq(c, 1, FirstEq(c) - 1))
             v == Trimmed(SubSeq(c, FirstEq(c) + 1, Len(c)))
         IN  k \in DOMAIN L /\ L[k] = v
    ELSE c \in DOMAIN L

\* C10 as claimed: _match_selector(L, S) holds iff every non-empty trimmed
\* clause of S is satisfied by L, "k=v" read with k and v exactly as split
C10_ExactClauses ==
    call.done =>
        call.res = \A c \in Pieces(call.selector) :
                       Trimmed(c) = << >> \/ SatisfiedExact(call.labels, Trimmed(c))

\* C10, amended: _match_selector(L, S) holds iff every non-empty trimmed clause
\* of S is satisfied by L, where "k=v" is split at its first '=' and k and v
\* are trimmed again before L is asked for key k with value v; a clause
\* without '=' asks for the key; empty selector and empty clauses match
C10_TrimmedClauses ==
    call.done =>
        call.res = \A c \in Pieces(call.selector) :
                       Trimmed(c) = << >> \/ SatisfiedTrimmed(call.labels, Trimmed(c))

\* a selector with a blank between key and '=' that matches the label
C10_Witness ==
    /\ call.done
    /\ call.selector = <<"a", " ", "=", "b">>
    /\ call.labels = [k \in {<<"a">>} |-> <<"b">>]
    /\ call.res

----------------------------------------------------------------------------
(* build_peers on its own: Init draws a pod list, as list_source_pods could  *)
(* hand it over, and a reordering of it; the action projects both            *)

\* length of a pod list
MaxPods == 3

\* the pods a list is drawn from: with and without IP, and pods that share
\* namespace and name (list_source_pods appends one list per entry of
\* WATCH_NAMESPACES, so a namespace named twice gives every pod twice, read at
\* two moments)
ListedPods ==
    { [ns |-> n, name |-> m, uid |-> 1, labels |-> LblMatch, ip |-> i] :
        n \in Namespaces, m \in {"p1", "p2"}, i \in {NoIP, IpOfUid(1), IpOfUid(2)} }

PodLists == UNION { [1 .. n -> ListedPods] : n \in 0 .. MaxPods }

Perms(n) == { f \in [1 .. n -> 1 .. n] : \A i, j \in 1 .. n : i # j => f[i] # f[j] }

InitPeers ==
    /\ Idle
    /\ \E P \in PodLists : \E f \in Perms(Len(P)) :
          call = [fn |-> "build_peers", pods |-> P,
                  reordered |-> [i \in 1 .. Len(P) |-> P[f[i]]],
                  done |-> FALSE, res |-> << >>, res2 |-> << >>,
                  doc |-> NoDoc, doc2 |-> NoDoc]

CallPeers ==
    /\ call.fn = "build_peers"
    /\ ~call.done
    /\ call' = [call EXCEPT !.done = TRUE,
                            !.res = build_peers(call.pods),
                            !.res2 = build_peers(call.reordered),
                            !.doc = ConfigMapData(build_peers(call.pods)),
                            !.doc2 = ConfigMapData(build_peers(call.reordered))]
    /\ UNCHANGED <<cfg, cluster, rv, zone, sink, passes, tasks>>

SpecPeers == InitPeers /\ [][CallPeers]_vars

\* C11 as claimed: build_peers gives the same peer list, and so the same
\* serialized data, for a pod list and for every reordering of it, also when
\* two entries share namespace and name
C11_OrderIndependent ==
    call.done =>
        /\ call.res = call.res2
        /\ call.doc = call.doc2

\* the order Python gives the namespaces and names in use
Rank(s) == CHOOSE i \in 1 .. 4 : <<"a", "b", "p1", "p2">>[i] = s

\* the peer objects a reader finds in the JSON of a document, in their order
JsonList(doc) ==
    LET at == {j \in 1 .. Len(doc.json) : doc.json[j] = "{"}
        nth(k) == CHOOSE i \in at : Cardinality({j \in at : j < i}) = k - 1
    IN  [k \in 1 .. Cardinality(at) |->
            [name |-> doc.json[nth(k) + 2], namespace |-> doc.json[nth(k) + 4],
             ip |-> doc.json[nth(k) + 6]]]

Ascending(peers) ==
    \A i, j \in 1 .. Len(peers) :
        i < j =>
            \/ Rank(peers[i].namespace) < Rank(peers[j].namespace)
            \/ /\ peers[i].namespace = peers[j].namespace
               /\ Rank(peers[i].name) <= Rank(peers[j].name)

\* C12: the peer list handed to the DNS step and the peer list in the
\* document built from it hold no peer with a missing or empty IP and are
\* sorted ascending by (namespace, name)
C12_PeersSortedWithIP ==
    call.done =>
        /\ \A i \in 1 .. Len(call.res) : call.res[i].ip # NoIP
        /\ Ascending(call.res)
        /\ \A i \in 1 .. Len(JsonList(call.doc)) : JsonList(call.doc)[i].ip # NoIP
        /\ Ascending(JsonList(call.doc))

\* three pods listed in descending order, one of them without an IP
C12_Witness ==
    /\ call.done
    /\ Len(call.pods) = 3
    /\ call.pods[1].ns = "b" /\ call.pods[1].ip # NoIP
    /\ call.pods[2].ns = "a" /\ call.pods[2].name = "p2" /\ call.pods[2].ip = NoIP
    /\ call.pods[3].ns = "a" /\ call.pods[3].name = "p1" /\ call.pods[3].ip # NoIP
    /\ Len(call.res) = 2
    /\ Len(JsonList(call.doc)) = 2

----------------------------------------------------------------------------
(* upsert_configmap on its own: Init draws the document as it stands, the    *)
(* peers to publish and what the three API calls do                          *)

\* length of the pod list behind the peers to publish
MaxSinkPods == 2

\* the peer lists reconcile_all can hand to upsert_configmap
SinkPeerLists ==
    { build_peers(P) : P \in UNION { [1 .. n -> ListedPods] : n \in 0 .. MaxSinkPods } }

\* the document before the call: none, or what an earlier call published
EarlierDocs ==
    {NoDoc} \cup { ConfigMapData(build_peers(P)) :
                     P \in UNION { [1 .. n -> ListedPods] : n \in 0 .. 1 } }

InitSink ==
    /\ Idle
    /\ \E before \in EarlierDocs, ps \in SinkPeerLists :
       \E rd \in ReadAnswers(before), rp \in ReplaceAnswers, cr \in CreateAnswers :
          call = [fn |-> "upsert_configmap", before |-> before, peers |-> ps,
                  read |-> rd, replace |-> rp, create |-> cr, done |-> FALSE,
                  res |-> [doc |-> before, calls |-> << >>, raised |-> FALSE]]

CallSink ==
    /\ call.fn = "upsert_configmap"
    /\ ~call.done
    /\ call' = [call EXCEPT !.done = TRUE,
                            !.res = upsert_configmap_result(call.before, call.peers,
                                        call.read, call.replace, call.create)]
    /\ UNCHANGED <<cfg, cluster, rv, zone, sink, passes, tasks>>

SpecSink == InitSink /\ [][CallSink]_vars

\* the flat field of doc is the IPs of its structured list in the same order,
\* each followed by one newline
FieldsAgree(doc) ==
    LET ps == JsonList(doc) IN
    /\ Len(doc.list) = 2 * Len(ps)
    /\ \A k \in 1 .. Len(ps) :
          /\ doc.list[2 * k - 1] = ps[k].ip
          /\ doc.list[2 * k] = "\n"

\* C13: whenever the document exists its flat field is the IPs of its
\* structured list, in order, each followed by one newline (no peers: the
\* empty string), and a publish leaves in both fields the published peers
\* and nothing of what the document held before
C13_FieldsDescribeOneList ==
    call.done =>
        /\ call.res.doc.exists => FieldsAgree(call.res.doc)
        /\ ~call.res.raised =>
              /\ call.res.doc.exists
              /\ DOMAIN call.res.doc = {"exists", "json", "list"}
              /\ JsonList(call.res.doc) = call.peers
              /\ call.peers = << >> => call.res.doc.list = << >>

\* two peers replace a document that held another peer
C13_Witness ==
    /\ call.done
    /\ ~call.res.raised
    /\ call.before.exists
    /\ Len(JsonList(call.before)) = 1
    /\ Len(call.peers) = 2
    /\ \A i \in 1 .. 2 : call.peers[i].ip # JsonList(call.before)[1].ip
    /\ Len(call.res.doc.list) = 4

\* C14 as claimed: upsert_configmap replaces the document when the read finds
\* it, creates it when the read reports 404, and at any other failure of the
\* read or of a write makes no further call, leaves the document as it is and
\* raises
C14_OtherFailuresPropagate ==
    call.done =>
        LET r == call.res IN
        /\ (call.read = Returned /\ call.replace = Returned) =>
              /\ r.calls = <<"read", "replace">>
              /\ r.doc = ConfigMapData(call.peers) /\ ~r.raised
        /\ (call.read = ApiException(404) /\ call.create = Returned) =>
              /\ r.calls = <<"read", "create">>
              /\ r.doc = ConfigMapData(call.peers) /\ ~r.raised
        /\ call.read \notin {Returned, ApiException(404)} =>
              r.calls = <<"read">> /\ r.doc = call.before /\ r.raised
        /\ (call.read = Returned /\ call.replace # Returned) =>
              r.calls = <<"read", "replace">> /\ r.doc = call.before /\ r.raised
        /\ (call.read = ApiException(404) /\ call.create # Returned) =>
              r.calls = <<"read", "create">> /\ r.doc = call.before /\ r.raised

----------------------------------------------------------------------------
(* Passes that run side by side *)

\* the pods the API server lists in the current state, over all namespaces
ListedNow ==
    LET ids == {i \in 1 .. Len(PodOrder) :
                   /\ cluster[PodOrder[i]].present
                   /\ ApiSelects(cluster[PodOrder[i]].labels)}
    IN  {PodObject(PodOrder[i], cluster[PodOrder[i]]) : i \in ids}

\* w has seen a pod named like record f with address ip: in the list of its
\* pass, or in the event its handler is called for
Observed(w, f, ip) ==
    \/ /\ w.pc = "dns"
       /\ \E q \in Range(w.pods) : fqdn_for_pod(q.name) = f /\ q.ip = ip
    \/ /\ w.pc = "stream"
       /\ w.inbox # << >>
       /\ fqdn_for_pod(Head(w.inbox).object.name) = f
       /\ Head(w.inbox).object.ip = ip

\* C15: under any interleaving, what a pass holds as its pod list is what its
\* own list call returned; every write of the document is the projection of
\* the pod list of the one pass that writes (no part of it comes from another
\* pass or is left from before); and every address written to a DNS record
\* was observed by the writing pass or handler for a pod of that name
C15_OneSnapshotPerWrite ==
    [][ /\ \A w \in BagToSet(tasks) :
              w.pc \in {"list", "dns"} =>
                  \A w2 \in BagToSet(tasks') :
                      (w2.pc \in {"dns", "sink"} /\ Moves(w, w2)) =>
                          /\ w2.reason = w.reason
                          /\ IF w.pc = "list"
                             THEN Range(w2.pods) = ListedNow /\ Len(w2.pods) = Cardinality(ListedNow)
                             ELSE w2.pods = w.pods
        /\ sink' # sink =>
              \E w \in BagToSet(tasks) :
                  /\ w.pc = "sink"
                  /\ Projects(sink', w.pods)
                  /\ FieldsAgree(sink')
                  /\ Len(JsonList(sink')) = Cardinality(WithIP(w.pods))
                  /\ \E w2 \in BagToSet(tasks') : w2.pc # "sink" /\ Moves(w, w2)
        /\ \A f \in FQDNs :
              (zone'[f] # zone[f] /\ zone'[f] # NoIP) =>
                  \E w \in BagToSet(tasks) :
                      /\ Observed(w, f, zone'[f])
                      /\ \E w2 \in BagToSet(tasks') : Moves(w, w2)
      ]_vars

\* two passes stand before their write of the document with pod lists that
\* project differently, one of them the list the document was written from
C15_Witness ==
    /\ sink.exists
    /\ \E w, v \in BagToSet(tasks) :
          /\ w.pc = "sink" /\ v.pc = "sink"
          /\ WithIP(w.pods) # WithIP(v.pods)
          /\ Projects(sink, v.pods)

\* pod id runs, carries the selector's label and has an IP
LivePeer(id) ==
    /\ cluster[id].present
    /\ ApiSelects(cluster[id].labels)
    /\ cluster[id].ip # NoIP

\* C20 as claimed: distinct live peers are never written to one DNS record:
\* the delete of handle_pod_deleted for a deleted pod never removes a record
\* that holds the address of another, live pod, and no write replaces the
\* address of one live peer by the address of another live peer
C20_RecordsNeverShared ==
    [][ \A f \in FQDNs : \A id \in PodIds :
          (/\ zone'[f] # zone[f]
           /\ LivePeer(id)
           /\ fqdn_for_pod(id[2]) = f
           /\ zone[f] = cluster[id].ip) =>
              /\ ~ \E w \in BagToSet(tasks) :
                      /\ w.pc = "stream"
                      /\ w.inbox # << >>
                      /\ Head(w.inbox).type = "DELETED"
                      /\ <<Head(w.inbox).object.ns, Head(w.inbox).object.name>> # id
                      /\ fqdn_for_pod(Head(w.inbox).object.name) = f
                      /\ zone'[f] = NoIP
                      /\ \E w2 \in BagToSet(tasks') : Moves(w, w2)
              /\ ~ \E id2 \in PodIds \ {id} :
                      /\ LivePeer(id2)
                      /\ zone'[f] = cluster[id2].ip
      ]_vars

\* C19: within one pass the steps come in the order list, project, DNS step,
\* document: the list step hands build_peers of its list to the DNS step when
\* the probe found PowerDNS ready and there are peers, and goes to the
\* document otherwise; the DNS step takes the peers one by one in their order,
\* whether the upsert of a peer succeeded or failed on all attempts, and
\* after the last peer comes the write of the document
C19_PassOrder ==
    [][ \A w \in BagToSet(tasks) :
          w.pc \in PassPcs =>
              \A w2 \in BagToSet(tasks') :
                  (w2.pc # w.pc \/ w2.idx # w.idx) /\ Moves(w, w2) =>
                      LET n == Len(build_peers(w.pods)) IN
                      CASE w.pc = "list" ->
                              \/ w2.pc = "except"
                              \/ w2.pc = "list" /\ cfg # << >>
                              \/ /\ w2.pc = "dns" /\ w2.idx = 1 /\ w2.ready = "yes"
                                 /\ build_peers(w2.pods) # << >>
                              \/ /\ w2.pc = "sink"
                                 /\ w2.ready = "no" \/ build_peers(w2.pods) = << >>
                        [] w.pc = "dns" ->
                              /\ w.idx \in 1 .. n
                              /\ LET peer == build_peers(w.pods)[w.idx] IN
                                 zone' \in {zone, [zone EXCEPT ![fqdn_for_pod(peer.name)] = peer.ip]}
                              /\ IF w.idx < n
                                 THEN w2.pc = "dns" /\ w2.idx = w.idx + 1 /\ w2.pods = w.pods
                                 ELSE w2.pc = "sink" /\ w2.pods = w.pods
                        [] w.pc = "sink" ->
                              /\ w2.pc \notin PassPcs
                              /\ zone' = zone
      ]_vars

\* a pass is at its second peer while the record of its first peer is still
\* empty: the upsert for the first peer failed on all attempts
C19_Witness ==
    \E w \in BagToSet(tasks) :
        /\ w.pc = "dns"
        /\ w.idx = 2
        /\ w.reason = "startup"
        /\ zone[fqdn_for_pod(build_peers(w.pods)[1].name)] = NoIP

----------------------------------------------------------------------------
(* The controller left to run: reconcile_all calls are not counted, every    *)
(* thread that can take a step takes one in the end, and the cluster stops   *)
(* changing after MaxChanges changes                                         *)

InitLive ==
    /\ cfg = WATCH_NAMESPACES
    /\ cluster \in {[id \in PodIds |-> PairPod(id)], [id \in PodIds |-> InitPod(id)]}
    /\ rv = 0
    /\ zone = [f \in FQDNs |-> NoIP]
    /\ sink = NoDoc
    /\ passes = -1
    /\ tasks = SetToBag({NewTask("main", "", "startup"), NewTask("timer", "", "tick")})
    /\ call = NoCall

\* no open watch stream raises
StreamsHold ==
    \A w \in BagToSet(tasks) :
        w.pc = "stream" =>
            \A w2 \in BagToSet(tasks') : w2.pc = "connect" => ~Moves(w, w2)

\* the cluster API and the PowerDNS API are available: no call of the cluster
\* API raises, no stream breaks, every readiness probe answers 200, and every
\* upsert and every delete gets through
ApisUp ==
    /\ StreamsHold
    /\ \A w2 \in BagToSet(tasks') : w2.pc # "except" /\ w2.ready # "no"
    /\ \A w \in BagToSet(tasks) :
          /\ w.pc = "dns" =>
                \A w2 \in BagToSet(tasks') :
                    (w2.idx # w.idx /\ Moves(w, w2)) =>
                        \A peer \in {build_peers(w.pods)[w.idx]} :
                            zone'[fqdn_for_pod(peer.name)] = peer.ip
          /\ (w.pc = "stream" /\ w.inbox # << >>) =>
                \A w2 \in BagToSet(tasks') :
                    (w2.pc = "list" /\ Moves(w, w2)) =>
                        LET e == Head(w.inbox) IN
                        zone'[fqdn_for_pod(e.object.name)] =
                            IF e.type = "DELETED" THEN NoIP ELSE e.object.ip

NextUp == Next /\ ApisUp

\* a step of the thread of the given kind
ThreadStep(kind) ==
    \E w \in TaskSet :
        /\ w.kind = kind
        /\ \/ Startup(w)
           \/ PeriodicTick(w)
           \/ WatchLoop(w)
           \/ DispatchEvent(w)
           \/ ListPods(w)
           \/ UpsertPeer(w)
           \/ upsert_configmap(w)
           \/ CatchPass(w)

\* threads are scheduled: __main__ with its watch loop, and the periodic
\* thread with its timer, each go on whenever they can; the cluster is under
\* no such obligation
FairUp ==
    /\ WF_vars(ThreadStep("main") /\ ApisUp)
    /\ WF_vars(ThreadStep("timer") /\ ApisUp)

SpecUp == InitLive /\ [][NextUp]_vars /\ FairUp

\* every live peer has an A-record with its current IP, and the document is
\* the projection of the pods that run and match now
Converged ==
    /\ \A id \in PodIds : LivePeer(id) => zone[fqdn_for_pod(id[2])] = cluster[id].ip
    /\ sink.exists
    /\ JsonPeers(sink) = {<<q.name, q.ns, q.ip>> : q \in {x \in ListedNow : x.ip # NoIP}}
    /\ ListLines(sink) = {q.ip : q \in {x \in ListedNow : x.ip # NoIP}}

\* C16 as claimed: once the matching pods have stopped changing, with the
\* cluster API and the PowerDNS API available and the periodic timer running,
\* the zone and the document come to agree with the live pods, again and
\* again until the end
C16_SelfHealing == []<>Converged

\* no record is left for a name that no live peer carries
Removed ==
    \A f \in FQDNs :
        (\A id \in PodIds : fqdn_for_pod(id[2]) = f => ~LivePeer(id)) => zone[f] = NoIP

\* C17 as claimed: once a matching pod has been deleted or has stopped
\* matching and the cluster has stopped changing, with the PowerDNS API
\* available, the zone comes to hold no A-record for that pod's name
C17_RecordsRemoved == []<>Removed

\* the cluster API is available and the PowerDNS API is not: no call of the
\* cluster API raises, no stream breaks, no readiness probe answers 200, no
\* upsert and no delete gets through
DnsDown ==
    /\ StreamsHold
    /\ \A w2 \in BagToSet(tasks') : w2.pc # "except" /\ w2.ready # "yes"
    /\ zone' = zone

NextDown == Next /\ DnsDown

FairDown ==
    /\ WF_vars(ThreadStep("main") /\ DnsDown)
    /\ WF_vars(ThreadStep("timer") /\ DnsDown)

SpecDown == InitLive /\ [][NextDown]_vars /\ FairDown

\* the document is the projection of the pods that run and match now
SinkCurrent ==
    /\ sink.exists
    /\ JsonPeers(sink) = {<<q.name, q.ns, q.ip>> : q \in {x \in ListedNow : x.ip # NoIP}}
    /\ ListLines(sink) = {q.ip : q \in {x \in ListedNow : x.ip # NoIP}}

\* C18 as claimed: with the PowerDNS API unready for ever and the cluster API
\* available, once the matching pods with an IP have stopped changing the
\* document comes to be the projection of that set
C18_SinkDespiteDnsDown == []<>SinkCurrent

====
